---- MODULE Spec2Model ----
(***************************************************************************)
(* Display configuration of the ndv array viewer.                          *)
(*                                                                         *)
(* Two revisions of ArrayDisplayModel live in the repository:              *)
(*   - ndv/v2/model.py, used by ndv/v2/view.py (ArrayViewer.set_data and   *)
(*     reconcile_model_with_data);                        -> SpecV2        *)
(*   - ndv/models/_array_display_model.py, which adds channel_mode, the    *)
(*     attached data_wrapper and current_slice_requests.  -> SpecADM       *)
(* Both share the field names, so both specifications use the same         *)
(* variables; a variable a revision does not have keeps its initial value. *)
(***************************************************************************)
EXTENDS Integers, Sequences, FiniteSets, TLC

VARIABLES
    visible_axes,    \* tuple of axis keys
    current_index,   \* dict axis key -> int | slice, as the sequence of its items
    channel_axis,    \* axis key or None
    channel_mode,    \* ChannelMode (models revision only)
    luts,            \* dict channel key -> LUTModel (a function on its key set)
    data,            \* the attached data wrapper, or NoData
    warned,          \* the last operation emitted a UserWarning
    raised,          \* exception raised by the last operation, "" if none
    last,            \* name of the last operation
    result,          \* value returned by the last query, NoResult otherwise
    futures,         \* Chunker: the futures handed out, in submission order
    _stores,         \* NGFFTensorStore._stores: key -> opened store
    _driver,         \* NGFFTensorStore._driver, or why there is none
    opened,          \* keys ts.open was called with and returned a store for
    pc,              \* imshow: the statement the call is at
    viewers,         \* imshow: the ArrayViewer objects constructed
    app,             \* the GUI event loop
    _lut,            \* HistogramController._lut: the attached LUT, or NoLut
    lut_models,      \* the LUTModel objects: name -> its fields
    connected,       \* connections of the controller's slot to lut.events.<signal>
    _hist,           \* what the slots last set on the histogram canvas
    calls            \* slot name -> times it ran during the last operation

vars == << visible_axes, current_index, channel_axis, channel_mode, luts,
           data, warned, raised, last, result,
           futures, _stores, _driver, opened, pc, viewers, app,
           _lut, lut_models, connected, _hist, calls >>

\* The fields of the display model, and the state of the other subsystems.
modelVars == << visible_axes, current_index, channel_axis, channel_mode, luts,
               data >>
chunkVars == << futures >>
ngffVars == << _stores, _driver, opened >>
imshowVars == << pc, viewers, app >>
histVars == << _lut, lut_models, connected, _hist, calls >>

----------------------------------------------------------------------------
(* Python values.  TLC cannot compare an integer with a string, so a value *)
(* of type `int | str | None` is a record that tags which one it is.       *)

None == [t |-> "None", n |-> 0, s |-> ""]
I(i) == [t |-> "int", n |-> i, s |-> ""]
S(x) == [t |-> "str", n |-> 0, s |-> x]

\* `int | slice` values: an integer position, slice(a, b) or slice(None).
Pos(i) == [t |-> "int", a |-> i, b |-> 0]
Slice(a, b) == [t |-> "slice", a |-> a, b |-> b]
SliceNone == [t |-> "slice(None)", a |-> 0, b |-> 0]

IsSlice(v) == v.t \in {"slice", "slice(None)"}
IsInt(v) == v.t = "int"

Elems(seq) == { seq[i] : i \in 1..Len(seq) }

\* The last n elements of a tuple: seq[-n:] for 0 < n.
LastN(seq, n) == IF n >= Len(seq) THEN seq
                 ELSE SubSeq(seq, Len(seq) - n + 1, Len(seq))

(* A dict is the sequence of its items <<key, value>> in insertion order,  *)
(* no key twice.                                                           *)
DictKeys(d) == { d[i][1] : i \in 1..Len(d) }
HasKey(d, k) == \E i \in 1..Len(d) : d[i][1] = k
Get(d, k) == d[CHOOSE i \in 1..Len(d) : d[i][1] = k][2]
\* d[k] = v: an existing key keeps its place, a new key goes last.
DictSet(d, k, v) ==
    IF HasKey(d, k)
    THEN [i \in 1..Len(d) |-> IF d[i][1] = k THEN <<k, v>> ELSE d[i]]
    ELSE Append(d, <<k, v>>)
\* del d[k]
DictDel(d, k) == SelectSeq(d, LAMBDA item : item[1] # k)
\* dict equality does not look at the order of the items.
DictEq(d, e) == Elems(d) = Elems(e)

----------------------------------------------------------------------------
(* Bounds of the model. *)

MaxIndexItems == 2     \* entries of current_index
MaxLuts == 1           \* per-channel entries of luts (the fallback apart)

----------------------------------------------------------------------------
(* Data wrappers.  A dataset is its shape, its dimension labels (empty for *)
(* an unlabelled array) and the axis its wrapper guesses as channel axis.  *)

NoData == [shape |-> << >>, dims |-> << >>, guess |-> None]

Datasets ==
    { [shape |-> <<2>>,       dims |-> << >>,             guess |-> I(0)],
      [shape |-> <<2, 2>>,    dims |-> << >>,             guess |-> I(0)],
      [shape |-> <<2, 2>>,    dims |-> <<"x", "y">>,      guess |-> None],
      [shape |-> <<3, 2, 2>>, dims |-> << >>,             guess |-> I(0)],
      [shape |-> <<2, 3, 2>>, dims |-> <<"y", "c", "x">>, guess |-> I(1)] }

ndim(d) == Len(d.shape)

\* DataWrapper.axis_index: any axis key (int or str) to an axis index.
\* "Raises a KeyError if the axis_key is not found.  Raises a IndexError if
\* the axis_key is out of bounds."
AxisError(d, key) ==
    CASE key.t = "int" -> IF key.n >= -ndim(d) /\ key.n < ndim(d)
                          THEN "" ELSE "IndexError"
      [] key.t = "str" -> IF \E i \in 1..Len(d.dims) : d.dims[i] = key.s
                          THEN "" ELSE "KeyError"
      [] OTHER -> "KeyError"

axis_index(d, key) ==
    IF key.t = "int"
    THEN (key.n + ndim(d)) % ndim(d)
    ELSE (CHOOSE i \in 1..Len(d.dims) : d.dims[i] = key.s) - 1

Resolves(d, key) == AxisError(d, key) = ""

\* DataWrapper.normalized_axis_key (models revision): the same conversion.
normalized_axis_key(d, key) == axis_index(d, key)

\* DataWrapper.guess_channel_axis (models revision).
guess_channel_axis(d) == d.guess

----------------------------------------------------------------------------
(* Inputs: what a caller may pass to the constructor or assign.            *)

AxisKeys == { I(-2), I(-1), I(0), S("x") }

VisibleAxesInputs ==
    { << I(-2), I(-1) >>, << I(-1), I(0) >>, << S("x"), I(-1) >>,
      << I(0), I(-2), I(-1) >>, << S("x"), I(-2), I(-1) >>,
      << I(-1), I(0), S("x") >> }

\* Tuples the field type tuple[K, K, K] | tuple[K, K] rejects.
BadVisibleAxes == { << I(-1) >>, << I(0), I(-2), I(-1), S("x") >> }

ChannelAxisInputs == AxisKeys \cup { None }

IndexKeys == { I(0), I(-1), S("x") }
IndexValues == { Pos(1), Slice(0, 1) }

\* All dicts with at most n items over the given keys and values.
RECURSIVE DictsUpTo(_, _, _)
DictsUpTo(n, keys, values) ==
    IF n = 0 THEN { << >> }
    ELSE LET shorter == DictsUpTo(n - 1, keys, values)
         IN shorter \cup
            { Append(d, <<k, v>>) :
                d \in { e \in shorter : Len(e) = n - 1 },
                k \in keys, v \in values }

IndexInputs ==
    { d \in DictsUpTo(MaxIndexItems, IndexKeys, IndexValues) :
        Cardinality(DictKeys(d)) = Len(d) }

NoResult == [kind |-> "none"]

----------------------------------------------------------------------------
(* A specification of one subsystem leaves the others as they are before   *)
(* anything was constructed.                                               *)

\* No Chunker request was issued.
NoChunker == futures = << >>

\* No NGFFTensorStore was constructed.
NoNGFF == _stores = << >> /\ _driver = "" /\ opened = << >>

\* imshow was not called.
NoImshow == pc = "" /\ viewers = << >> /\ app = "not started"

\* No HistogramController was constructed.
NoLut == "None"
NoHist ==
    /\ _lut = NoLut
    /\ lut_models = << >>
    /\ connected = << >>
    /\ _hist = << >>
    /\ calls = << >>

----------------------------------------------------------------------------
(* LUTModel: what a channel's display specification holds that the model   *)
(* reads (visible); cmap, clims and gamma are carried along untouched.     *)

LUTModel(visible) == [visible |-> visible]

\* _default_luts(): one LUT per colour, keys 0..5, no None key.
NumDefaultColors == 6
_default_luts == [k \in { I(i) : i \in 0..(NumDefaultColors - 1) } |-> LUTModel(TRUE)]

----------------------------------------------------------------------------
(* ndv/models/_array_display_model.py                                      *)

GRAYSCALE == "grayscale"
COMPOSITE == "composite"
COLOR == "color"
RGBA == "rgba"
ChannelMode == { GRAYSCALE, COMPOSITE, COLOR, RGBA }

is_multichannel(mode) == mode \in { COMPOSITE, RGBA }

\* _validate_model with the conflict reported but the channel axis kept.
_validate_model_keeps_axis(va, ca, mode, dw) ==
    [ channel_axis |->
        IF ca = None /\ dw # NoData /\ mode # GRAYSCALE
        THEN guess_channel_axis(dw)
        ELSE ca,
      warned |-> ca \in Elems(va) ]

\* ArrayDisplayModel._validate_model, run after construction and after every
\* assignment to a field: the channel axis the model is left with, and
\* whether the UserWarning was emitted.
_validate_model(va, ca, mode, dw) ==
    LET conflict == ca \in Elems(va)
        cleared == IF conflict THEN None ELSE ca
    IN [ channel_axis |->
            IF cleared = None /\ dw # NoData /\ mode # GRAYSCALE
            THEN guess_channel_axis(dw)
            ELSE cleared,
         warned |-> conflict ]

InitADM ==
    \E va \in VisibleAxesInputs, ca \in ChannelAxisInputs,
       mode \in ChannelMode, dw \in Datasets \cup { NoData },
       ci \in IndexInputs :
        LET v == _validate_model(va, ca, mode, dw)
        IN /\ visible_axes = va
           /\ current_index = ci
           /\ channel_mode = mode
           /\ channel_axis = v.channel_axis
           /\ luts = _default_luts
           /\ data = dw
           /\ warned = v.warned
           /\ raised = ""
           /\ last = "__init__"
           /\ NoChunker /\ NoNGFF /\ NoImshow /\ NoHist
           /\ result = NoResult

\* model.visible_axes = va
SetVisibleAxes(va) ==
    /\ last' = "visible_axes"
    /\ UNCHANGED << chunkVars, ngffVars, imshowVars, histVars >>
    /\ result' = NoResult
    /\ IF Len(va) \in { 2, 3 }
       THEN LET v == _validate_model(va, channel_axis, channel_mode, data)
            IN /\ visible_axes' = va
               /\ channel_axis' = v.channel_axis
               /\ warned' = v.warned
               /\ raised' = ""
       ELSE /\ raised' = "ValidationError"
            /\ warned' = FALSE
            /\ UNCHANGED << visible_axes, channel_axis >>
    /\ UNCHANGED << current_index, channel_mode, luts, data >>

\* model.channel_axis = ca
SetChannelAxis(ca) ==
    LET v == _validate_model(visible_axes, ca, channel_mode, data)
    IN /\ channel_axis' = v.channel_axis
       /\ warned' = v.warned
       /\ raised' = ""
       /\ last' = "channel_axis"
       /\ UNCHANGED << chunkVars, ngffVars, imshowVars, histVars >>
       /\ result' = NoResult
       /\ UNCHANGED << visible_axes, current_index, channel_mode, luts, data >>

\* model.channel_mode = mode
SetChannelMode(mode) ==
    LET v == _validate_model(visible_axes, channel_axis, mode, data)
    IN /\ channel_mode' = mode
       /\ channel_axis' = v.channel_axis
       /\ warned' = v.warned
       /\ raised' = ""
       /\ last' = "channel_mode"
       /\ UNCHANGED << chunkVars, ngffVars, imshowVars, histVars >>
       /\ result' = NoResult
       /\ UNCHANGED << visible_axes, current_index, luts, data >>

\* model.data = d (None detaches): assigns data_wrapper.
SetData(dw) ==
    LET v == _validate_model(visible_axes, channel_axis, channel_mode, dw)
    IN /\ data' = dw
       /\ channel_axis' = v.channel_axis
       /\ warned' = v.warned
       /\ raised' = ""
       /\ last' = "data"
       /\ UNCHANGED << chunkVars, ngffVars, imshowVars, histVars >>
       /\ result' = NoResult
       /\ UNCHANGED << visible_axes, current_index, channel_mode, luts >>

\* model.current_index[k] = v: the mapping is changed in place, no model
\* validator runs.
SetIndexItem(k, v) ==
    /\ HasKey(current_index, k) \/ Len(current_index) < MaxIndexItems
    /\ current_index' = DictSet(current_index, k, v)
    /\ warned' = FALSE
    /\ raised' = ""
    /\ last' = "current_index"
    /\ UNCHANGED << chunkVars, ngffVars, imshowVars, histVars >>
    /\ result' = NoResult
    /\ UNCHANGED << visible_axes, channel_axis, channel_mode, luts, data >>

\* del model.current_index[k]
DelIndexItem(k) ==
    /\ HasKey(current_index, k)
    /\ current_index' = DictDel(current_index, k)
    /\ warned' = FALSE
    /\ raised' = ""
    /\ last' = "current_index"
    /\ UNCHANGED << chunkVars, ngffVars, imshowVars, histVars >>
    /\ result' = NoResult
    /\ UNCHANGED << visible_axes, channel_axis, channel_mode, luts, data >>

(* NormedAxes *)

\* NormedAxes.visible_axes
normed_visible_axes(dw, va) ==
    [i \in 1..Len(va) |-> normalized_axis_key(dw, va[i])]

\* NormedAxes.channel_axis
normed_channel_axis(dw, ca) ==
    IF ca = None THEN None ELSE I(normalized_axis_key(dw, ca))

\* NormedAxes.current_index: {normalized_axis_key(ax): v for ax, v in items}
RECURSIVE normed_current_index(_, _)
normed_current_index(dw, ci) ==
    IF ci = << >> THEN << >>
    ELSE LET n == Len(ci)
             item == ci[n]
         IN DictSet(normed_current_index(dw, SubSeq(ci, 1, n - 1)),
                    normalized_axis_key(dw, item[1]), item[2])

\* EnsureSlices that replaces an integer by the full slice but does not add
\* an axis the request lacks.
RECURSIVE EnsureSlices_present_only(_, _)
EnsureSlices_present_only(requested, axes) ==
    IF axes = << >> THEN requested
    ELSE LET ax == Head(axes)
             next == IF HasKey(requested, ax) /\ ~IsSlice(Get(requested, ax))
                     THEN DictSet(requested, ax, SliceNone)
                     ELSE requested
         IN EnsureSlices_present_only(next, Tail(axes))

\* for ax in axes: if not isinstance(requested.get(ax), slice):
\*     requested[ax] = slice(None)
RECURSIVE EnsureSlices(_, _)
EnsureSlices(requested, axes) ==
    IF axes = << >> THEN requested
    ELSE LET ax == Head(axes)
             next == IF HasKey(requested, ax) /\ IsSlice(Get(requested, ax))
                     THEN requested
                     ELSE DictSet(requested, ax, SliceNone)
         IN EnsureSlices(next, Tail(axes))

\* NormedAxes.current_slices
current_slices(dw, va, ci) ==
    EnsureSlices(normed_current_index(dw, ci), normed_visible_axes(dw, va))

\* The first key normalized_axis_key raises on, in the order the properties
\* are read: current_index, visible_axes, channel_axis.
NormedError(dw, va, ci, ca) ==
    LET keys == [i \in 1..Len(ci) |-> ci[i][1]] \o va
                \o (IF ca = None THEN << >> ELSE << ca >>)
        bad == { i \in 1..Len(keys) : ~Resolves(dw, keys[i]) }
    IN IF bad = {} THEN ""
       ELSE AxisError(dw, keys[CHOOSE i \in bad : \A j \in bad : i <= j])

\* `if c_ax := self.normed.channel_axis:` -- the truth value of Optional[int]
Truthy(c_ax) == c_ax # None /\ c_ax # I(0)

\* for ax, val in requested_slice.items():
\*     if isinstance(val, int): requested_slice[ax] = slice(val, val + 1)
IntsToSlices(requested) ==
    [i \in 1..Len(requested) |->
        IF IsInt(requested[i][2])
        THEN << requested[i][1],
                Slice(requested[i][2].a, requested[i][2].a + 1) >>
        ELSE requested[i]]

\* ArrayDisplayModel.current_slice_requests, for a model with data attached
\* whose keys all normalize.
current_slice_requests(dw, va, ci, ca, mode) ==
    LET requested == current_slices(dw, va, ci)
        c_ax0 == normed_channel_axis(dw, ca)
        multi == Truthy(c_ax0) /\ is_multichannel(mode)
        sliced == IF multi /\ ~(HasKey(requested, c_ax0.n)
                                /\ IsSlice(Get(requested, c_ax0.n)))
                  THEN DictSet(requested, c_ax0.n, SliceNone)
                  ELSE requested
        c_ax == IF Truthy(c_ax0) /\ ~is_multichannel(mode) THEN None ELSE c_ax0
    IN << [ index |-> IntsToSlices(sliced),
            visible_axes |-> normed_visible_axes(dw, va),
            channel_axis |-> c_ax ] >>

\* requests = model.current_slice_requests()
CurrentSliceRequests ==
    LET err == IF data = NoData THEN ""
               ELSE NormedError(data, visible_axes, current_index, channel_axis)
    IN /\ last' = "current_slice_requests"
       /\ UNCHANGED << chunkVars, ngffVars, imshowVars, histVars >>
       /\ warned' = FALSE
       /\ raised' = err
       /\ result' =
            IF data = NoData THEN [kind |-> "requests", requests |-> << >>]
            ELSE IF err # "" THEN NoResult
            ELSE [kind |-> "requests",
                  requests |-> current_slice_requests(
                      data, visible_axes, current_index, channel_axis,
                      channel_mode)]
       /\ UNCHANGED << visible_axes, current_index, channel_axis,
                       channel_mode, luts, data >>

\* The positions slice(a, b) selects on an axis of length n, ascending, as
\* Python resolves them: a negative bound counts from the end, and a bound
\* outside the axis is clipped to it.
ClipBound(i, n) ==
    IF i < 0 THEN (IF i + n < 0 THEN 0 ELSE i + n)
    ELSE (IF i > n THEN n ELSE i)

Selected(v, n) ==
    IF v.t = "slice(None)" THEN [i \in 1..n |-> i - 1]
    ELSE LET lo == ClipBound(v.a, n)
             hi == ClipBound(v.b, n)
         IN [i \in 1..(IF hi > lo THEN hi - lo ELSE 0) |-> lo + i - 1]

\* DataWrapper.isel(index) with a slice for every key of index: the shape of
\* the data it returns.  Every axis is kept; an axis index lacks is whole.
isel(dw, index) ==
    [ax \in 1..ndim(dw) |->
        IF HasKey(index, ax - 1)
        THEN Len(Selected(Get(index, ax - 1), dw.shape[ax]))
        ELSE dw.shape[ax]]

\* ch_indices taken from the shape of the whole array instead of the shape
\* of the sliced data.
ch_indices_whole_axis(req, dw) ==
    IF req.channel_axis # None
    THEN [i \in 1..dw.shape[req.channel_axis.n + 1] |-> I(i - 1)]
    ELSE << None >>

\* The channel keys request_sliced_data iterates for one request:
\* range(data.shape[ch_ax]), or (None,).
ch_indices(req, dw) ==
    IF req.channel_axis # None
    THEN [i \in 1..isel(dw, req.index)[req.channel_axis.n + 1] |-> I(i - 1)]
    ELSE << None >>

\* ch_data.transpose(*t_dims) with t_dims = vis_ax + the other axes: numpy
\* rejects t_dims when an axis is named twice in vis_ax.
TransposeError(req) ==
    IF Cardinality(Elems(req.visible_axes)) < Len(req.visible_axes)
    THEN "ValueError" ELSE ""

\* ArrayDisplayModel.request_sliced_data: the futures appended for the
\* requests, each already holding its DataResponse.
RECURSIVE request_sliced_data(_, _)
request_sliced_data(requests, dw) ==
    IF requests = << >> THEN << >>
    ELSE LET keys == ch_indices(Head(requests), dw)
         IN [i \in 1..Len(keys) |-> [done |-> TRUE, channel_key |-> keys[i]]]
            \o request_sliced_data(Tail(requests), dw)

\* futures = model.request_sliced_data()
RequestSlicedData ==
    LET err == IF data = NoData THEN ""
               ELSE NormedError(data, visible_axes, current_index, channel_axis)
        requests == IF data = NoData THEN << >>
                    ELSE current_slice_requests(
                             data, visible_axes, current_index, channel_axis,
                             channel_mode)
        terr == IF \E r \in 1..Len(requests) :
                     /\ ch_indices(requests[r], data) # << >>
                     /\ TransposeError(requests[r]) # ""
                THEN "ValueError" ELSE ""
    IN /\ last' = "request_sliced_data"
       /\ UNCHANGED << chunkVars, ngffVars, imshowVars, histVars >>
       /\ warned' = FALSE
       /\ raised' = IF err # "" THEN err ELSE terr
       /\ result' =
            IF err # "" THEN NoResult
            ELSE IF terr # "" THEN NoResult
            ELSE [kind |-> "futures",
                  requests |-> requests,
                  futures |-> request_sliced_data(requests, data)]
       /\ UNCHANGED << visible_axes, current_index, channel_axis,
                       channel_mode, luts, data >>

NextADM ==
    \/ \E va \in VisibleAxesInputs \cup BadVisibleAxes : SetVisibleAxes(va)
    \/ \E ca \in ChannelAxisInputs : SetChannelAxis(ca)
    \/ \E mode \in ChannelMode : SetChannelMode(mode)
    \/ \E dw \in Datasets \cup { NoData } : SetData(dw)
    \/ \E k \in IndexKeys, v \in IndexValues : SetIndexItem(k, v)
    \/ \E k \in IndexKeys : DelIndexItem(k)
    \/ CurrentSliceRequests
    \/ RequestSlicedData

SpecADM == InitADM /\ [][NextADM]_vars

----------------------------------------------------------------------------
(* ndv/v2/model.py                                                         *)

\* Inputs of the v2 revision.  current_index values are integer positions
\* here: a slice has no JSON form.
\* luts: per-channel entries under integer or string keys, with or without
\* the fallback entry under None.
LutKeys == { I(0), S("x") }
LutValues == { LUTModel(TRUE), LUTModel(FALSE) }
ChannelLuts ==
    UNION { [keys -> LutValues] :
              keys \in { k \in SUBSET LutKeys : Cardinality(k) <= MaxLuts } }
WithFallback(l) ==
    [ k \in DOMAIN l \cup { None } |-> IF k = None THEN LUTModel(TRUE) ELSE l[k] ]
LutsInputs == ChannelLuts \cup { WithFallback(l) : l \in ChannelLuts }

v2_IndexKeys == { I(-1), S("x") }
v2_IndexValues == { Pos(0), Pos(1) }
v2_IndexInputs ==
    { d \in DictsUpTo(MaxIndexItems, v2_IndexKeys, v2_IndexValues) :
        Cardinality(DictKeys(d)) = Len(d) }

\* str(i) of an integer and, for the strings the model meets, str.isdigit
\* and int(s).
MaxDigits == 9
str(i) == ToString(i)
isdigit(x) == \E i \in 0..MaxDigits : str(i) = x
int(x) == CHOOSE i \in 0..MaxDigits : str(i) = x

\* ArrayDisplayModel._validate_model (v2)
v2_validate_model(va, ca) ==
    LET conflict == ca \in Elems(va)
    IN [ channel_axis |-> IF conflict THEN None ELSE ca,
         warned |-> conflict ]

\* The key _validate_luts leaves a key under: "None" becomes None, a string
\* of digits becomes the integer.
LutKey(k) ==
    IF k = S("None") THEN None
    ELSE IF k.t = "str" /\ isdigit(k.s) THEN I(int(k.s))
    ELSE k

\* ArrayDisplayModel._validate_luts: v[None] = v.pop("None") and
\* v[int(key)] = v.pop(key) overwrite an entry already under the new key.
_validate_luts(v) ==
    [ k \in { LutKey(j) : j \in DOMAIN v } |->
        IF \E j \in DOMAIN v : j # k /\ LutKey(j) = k
        THEN v[CHOOSE j \in DOMAIN v : j # k /\ LutKey(j) = k]
        ELSE v[k] ]

\* ArrayViewer.__init__ with ArrayDisplayModel(**kwargs) and no data yet.
InitV2 ==
    \E va \in VisibleAxesInputs, ca \in ChannelAxisInputs,
       ci \in v2_IndexInputs, l \in LutsInputs :
        LET v == v2_validate_model(va, ca)
        IN /\ visible_axes = va
           /\ current_index = ci
           /\ channel_mode = GRAYSCALE
           /\ channel_axis = v.channel_axis
           /\ luts = _validate_luts(l)
           /\ data = NoData
           /\ warned = v.warned
           /\ raised = ""
           /\ last = "__init__"
           /\ NoChunker /\ NoNGFF /\ NoImshow /\ NoHist
           /\ result = NoResult

\* model.visible_axes = va
v2_SetVisibleAxes(va) ==
    /\ last' = "setattr"
    /\ UNCHANGED << chunkVars, ngffVars, imshowVars, histVars >>
    /\ result' = NoResult
    /\ IF Len(va) \in { 2, 3 }
       THEN LET v == v2_validate_model(va, channel_axis)
            IN /\ visible_axes' = va
               /\ channel_axis' = v.channel_axis
               /\ warned' = v.warned
               /\ raised' = ""
       ELSE /\ raised' = "ValidationError"
            /\ warned' = FALSE
            /\ UNCHANGED << visible_axes, channel_axis >>
    /\ UNCHANGED << current_index, channel_mode, luts, data >>

\* model.channel_axis = ca
v2_SetChannelAxis(ca) ==
    LET v == v2_validate_model(visible_axes, ca)
    IN /\ channel_axis' = v.channel_axis
       /\ warned' = v.warned
       /\ raised' = ""
       /\ last' = "setattr"
       /\ UNCHANGED << chunkVars, ngffVars, imshowVars, histVars >>
       /\ result' = NoResult
       /\ UNCHANGED << visible_axes, current_index, channel_mode, luts, data >>

\* model.current_index = ci
v2_SetCurrentIndex(ci) ==
    /\ current_index' = ci
    /\ warned' = FALSE
    /\ raised' = ""
    /\ last' = "setattr"
    /\ UNCHANGED << chunkVars, ngffVars, imshowVars, histVars >>
    /\ result' = NoResult
    /\ UNCHANGED << visible_axes, channel_axis, channel_mode, luts, data >>

\* model.luts = l
v2_SetLuts(l) ==
    /\ luts' = _validate_luts(l)
    /\ warned' = FALSE
    /\ raised' = ""
    /\ last' = "setattr"
    /\ UNCHANGED << chunkVars, ngffVars, imshowVars, histVars >>
    /\ result' = NoResult
    /\ UNCHANGED << visible_axes, current_index, channel_axis, channel_mode,
                    data >>

(* JSON document of the model: model_dump_json / model_validate_json.      *)

\* ArrayDisplayModel.n_visible_axes (computed field)
n_visible_axes(va) == Len(va)

\* A dict key in the document: JSON object keys are strings.
JsonKey(k) ==
    CASE k.t = "None" -> S("None")
      [] k.t = "int" -> S(str(k.n))
      [] OTHER -> k

\* ArrayDisplayModel.model_dump_json(): current_index as the list of its
\* items in the document, luts as a mapping.
model_dump_json(va, ci, ca, l) ==
    [ visible_axes |-> va,
      n_visible_axes |-> n_visible_axes(va),
      current_index |->
          [i \in 1..Len(ci) |-> << JsonKey(ci[i][1]), ci[i][2] >>],
      channel_axis |-> ca,
      luts |-> [ k \in { JsonKey(j) : j \in DOMAIN l } |->
                   l[CHOOSE j \in DOMAIN l : JsonKey(j) = k] ] ]

\* The dict a JSON object parses to: a repeated key keeps its last value.
RECURSIVE ParseObject(_)
ParseObject(items) ==
    IF items = << >> THEN << >>
    ELSE LET n == Len(items)
         IN DictSet(ParseObject(SubSeq(items, 1, n - 1)),
                    items[n][1], items[n][2])

\* ArrayDisplayModel.model_validate_json(doc): current_index has no `before`
\* validator, so its keys stay the strings of the document (a str is a valid
\* AxisKey); luts goes through _validate_luts; n_visible_axes is ignored.
model_validate_json(doc) ==
    LET v == v2_validate_model(doc.visible_axes, doc.channel_axis)
    IN [ kind |-> "model",
         visible_axes |-> doc.visible_axes,
         current_index |-> ParseObject(doc.current_index),
         channel_axis |-> v.channel_axis,
         luts |-> _validate_luts(doc.luts) ]

\* m2 = ArrayDisplayModel.model_validate_json(model.model_dump_json())
v2_RoundTrip ==
    /\ result' = model_validate_json(
          model_dump_json(visible_axes, current_index, channel_axis, luts))
    /\ warned' = FALSE
    /\ raised' = ""
    /\ last' = "round_trip"
    /\ UNCHANGED << chunkVars, ngffVars, imshowVars, histVars >>
    /\ UNCHANGED << visible_axes, current_index, channel_axis, channel_mode,
                    luts, data >>

(* ndv/v2/view.py                                                          *)

\* reconcile_visible_axes cutting one axis too many: visible_axes[-(ndim - 1):]
reconcile_visible_axes_short(va, d) ==
    IF Len(va) > ndim(d) THEN LastN(va, ndim(d) - 1) ELSE va

\* reconcile_visible_axes keeping the leading axes: visible_axes[:ndim]
reconcile_visible_axes_leading(va, d) ==
    IF Len(va) > ndim(d) THEN SubSeq(va, 1, ndim(d)) ELSE va

\* visible_axes = model.visible_axes
\* if len(visible_axes) > ndim: visible_axes = visible_axes[-ndim:]
reconcile_visible_axes(va, d) ==
    IF Len(va) > ndim(d) THEN LastN(va, ndim(d)) ELSE va

\* reconcile_current_index keeping the first entry of an axis
\* (current_index.setdefault(axis, index)).
RECURSIVE reconcile_current_index_first(_, _)
reconcile_current_index_first(ci, d) ==
    IF ci = << >> THEN << >>
    ELSE LET n == Len(ci)
             item == ci[n]
             rest == reconcile_current_index_first(SubSeq(ci, 1, n - 1), d)
         IN IF Resolves(d, item[1])
                 /\ ~HasKey(rest, I(axis_index(d, item[1])))
            THEN DictSet(rest, I(axis_index(d, item[1])), item[2])
            ELSE rest

\* for key, index in model.current_index.items():
\*     try: current_index[data.axis_index(key)] = index
\*     except (KeyError, IndexError): pass
RECURSIVE reconcile_current_index(_, _)
reconcile_current_index(ci, d) ==
    IF ci = << >> THEN << >>
    ELSE LET n == Len(ci)
             item == ci[n]
             rest == reconcile_current_index(SubSeq(ci, 1, n - 1), d)
         IN IF Resolves(d, item[1])
            THEN DictSet(rest, I(axis_index(d, item[1])), item[2])
            ELSE rest

\* try: channel_axis = data.axis_index(model.channel_axis)
\* except (KeyError, IndexError): channel_axis = None
reconcile_channel_axis(ca, d) ==
    IF Resolves(d, ca) THEN I(axis_index(d, ca)) ELSE None

\* reconcile_raises accepting a dataset of one dimension (ndim < 1).
reconcile_raises_min_one(va, l, d) ==
    IF ndim(d) < 1 THEN "ValueError"
    ELSE IF \E axis \in Elems(reconcile_visible_axes(va, d)) : ~Resolves(d, axis)
    THEN "ValueError"
    ELSE IF \E key \in DOMAIN l : key # None /\ ~Resolves(d, key)
    THEN "RuntimeError"
    ELSE ""

\* The exception reconcile_model_with_data ends with, "" when it returns.
\* `del luts[key]` inside `for key in luts` makes the iterator raise
\* RuntimeError (dictionary changed size during iteration) when it is next
\* advanced, whichever key was deleted.
reconcile_raises(va, l, d) ==
    IF ndim(d) < 2 THEN "ValueError"
    ELSE IF \E axis \in Elems(reconcile_visible_axes(va, d)) : ~Resolves(d, axis)
    THEN "ValueError"
    ELSE IF \E key \in DOMAIN l : key # None /\ ~Resolves(d, key)
    THEN "RuntimeError"
    ELSE ""

\* reconcile_model_with_data(model, data): the returned dict (reducers are
\* passed through), when it returns.
reconcile_model_with_data(va, ci, ca, l, d) ==
    [ kind |-> "reconciled",
      arg |-> d,
      visible_axes |-> reconcile_visible_axes(va, d),
      current_index |-> reconcile_current_index(ci, d),
      channel_axis |-> reconcile_channel_axis(ca, d),
      luts |-> l ]

\* new = reconcile_model_with_data(viewer.model, viewer.data)
v2_Reconcile ==
    LET d == data
        err == reconcile_raises(visible_axes, luts, d)
    IN /\ data # NoData
       /\ raised' = err
       /\ result' = IF err = ""
                    THEN reconcile_model_with_data(
                            visible_axes, current_index, channel_axis, luts, d)
                    ELSE [kind |-> "raised", arg |-> d]
       /\ warned' = FALSE
       /\ last' = "reconcile"
       /\ UNCHANGED << chunkVars, ngffVars, imshowVars, histVars >>
       /\ UNCHANGED << visible_axes, current_index, channel_axis,
                       channel_mode, luts, data >>

\* ArrayViewer.set_data(d): self.data is assigned first; each key of the
\* reconciled dict is then assigned to the model in turn (visible_axes,
\* current_index, reducers, channel_axis, luts), every assignment running the
\* model's validators.  redraw() changes nothing of the model.
set_data(d) ==
    LET err == reconcile_raises(visible_axes, luts, d)
        new == reconcile_model_with_data(
                  visible_axes, current_index, channel_axis, luts, d)
        v1 == v2_validate_model(new.visible_axes, channel_axis)
        v2 == v2_validate_model(new.visible_axes, new.channel_axis)
    IN /\ data' = d
       /\ raised' = err
       /\ last' = "set_data"
       /\ UNCHANGED << chunkVars, ngffVars, imshowVars, histVars >>
       /\ result' = NoResult
       /\ IF err = ""
          THEN /\ visible_axes' = new.visible_axes
               /\ current_index' = new.current_index
               /\ channel_axis' = v2.channel_axis
               /\ luts' = _validate_luts(new.luts)
               /\ warned' = (v1.warned \/ v2.warned)
          ELSE /\ warned' = FALSE
               /\ UNCHANGED << visible_axes, current_index, channel_axis, luts >>
       /\ UNCHANGED channel_mode

NextV2 ==
    \/ \E va \in VisibleAxesInputs \cup BadVisibleAxes : v2_SetVisibleAxes(va)
    \/ \E ca \in ChannelAxisInputs : v2_SetChannelAxis(ca)
    \/ \E ci \in v2_IndexInputs : v2_SetCurrentIndex(ci)
    \/ \E l \in LutsInputs : v2_SetLuts(l)
    \/ \E d \in Datasets : set_data(d)
    \/ v2_Reconcile
    \/ v2_RoundTrip

SpecV2 == InitV2 /\ [][NextV2]_vars

----------------------------------------------------------------------------
(* Integer positions as slices: the loop that ends current_slice_requests  *)
(* (models revision) and _to_slice (ndv/v2/model.py), over positions of    *)
(* either sign.                                                  SpecSlice *)

MaxPos == 3            \* integer positions run over -MaxPos .. MaxPos - 1

Positions == { Pos(i) : i \in (0 - MaxPos)..(MaxPos - 1) }

\* A non-str Sequence of two integers, and a value of another type.
Seq2(a, b) == [t |-> "seq", a |-> a, b |-> b]
OtherValue == [t |-> "str", a |-> 0, b |-> 0]

ToSliceInputs ==
    Positions \cup { Slice(0, 1), SliceNone, Seq2(0, 2), Seq2(-1, 0), OtherValue }

\* _to_slice raises TypeError for a value that is no slice, int or Sequence.
_to_slice_raises(val) == ~(IsSlice(val) \/ IsInt(val) \/ val.t = "seq")

_to_slice(val) ==
    CASE IsSlice(val) -> val
      [] IsInt(val) -> Slice(val.a, val.a + 1)
      [] OTHER -> Slice(val.a, val.b)

\* current_index of the models revision with one position of either sign.
SliceIndexInputs ==
    { << >> } \cup { << << k, v >> >> : k \in IndexKeys, v \in Positions }

InitSlice ==
    \E va \in VisibleAxesInputs, dw \in Datasets, ci \in SliceIndexInputs :
        /\ visible_axes = va
        /\ current_index = ci
        /\ channel_mode = GRAYSCALE
        /\ channel_axis = _validate_model(va, None, GRAYSCALE, dw).channel_axis
        /\ luts = _default_luts
        /\ data = dw
        /\ warned = FALSE
        /\ raised = ""
        /\ last = "__init__"
        /\ NoChunker /\ NoNGFF /\ NoImshow /\ NoHist
        /\ result = NoResult

\* _to_slice(val)
ToSlice(val) ==
    /\ last' = "_to_slice"
    /\ UNCHANGED << chunkVars, ngffVars, imshowVars, histVars >>
    /\ warned' = FALSE
    /\ raised' = IF _to_slice_raises(val) THEN "TypeError" ELSE ""
    /\ result' = IF _to_slice_raises(val) THEN NoResult
                 ELSE [kind |-> "slice", arg |-> val, value |-> _to_slice(val)]
    /\ UNCHANGED << visible_axes, current_index, channel_axis, channel_mode,
                    luts, data >>

NextSlice ==
    \/ CurrentSliceRequests
    \/ \E val \in ToSliceInputs : ToSlice(val)

SpecSlice == InitSlice /\ [][NextSlice]_vars

----------------------------------------------------------------------------
(* ndv/v2/chunker.py and the completion callback of ndv/v2/view.py.  Two   *)
(* kinds of thread take steps: the GUI thread, which iterates              *)
(* request_chunks and adds the callback to each future it yields, and the  *)
(* worker threads of the ThreadPoolExecutor.                     SpecChunk *)

MaxRequests == 3       \* requests handed to request_chunks

GUI == "gui"
WORKER == "worker"

\* The fields of the display model as ArrayDisplayModel() leaves them.
ModelDefault ==
    /\ visible_axes = << I(-2), I(-1) >>
    /\ current_index = << >>
    /\ channel_axis = None
    /\ channel_mode = GRAYSCALE
    /\ luts = _default_luts
    /\ data = NoData
    /\ warned = FALSE

\* A concurrent.futures.Future: its state ("pending", "running", or finished
\* with "result" or "exception"), whether add_done_callback was called on
\* it, and the thread _on_chunk_ready ran on for it ("" while it has not).
Future(state, added, ran_on) ==
    [state |-> state, added |-> added, ran_on |-> ran_on]

done(f) == f.state \in { "result", "exception" }

InitChunk ==
    /\ ModelDefault
    /\ futures = << >>
    /\ raised = ""
    /\ last = "Chunker"
    /\ result = NoResult
    /\ NoNGFF /\ NoImshow /\ NoHist

\* GUI thread: the generator is advanced to its next
\* `yield self._executor.submit(self._request_chunk, request)`.  The loop
\* body of the previous future has run by then.
Submit ==
    /\ Len(futures) < MaxRequests
    /\ \A f \in 1..Len(futures) : futures[f].added
    /\ futures' = Append(futures, Future("pending", FALSE, ""))
    /\ last' = "submit"
    /\ raised' = ""
    /\ UNCHANGED << modelVars, warned, result, ngffVars, imshowVars, histVars >>

\* GUI thread: future.add_done_callback(self._on_chunk_ready) on the future
\* just yielded.  A future that is done already runs the callback at once,
\* in the calling thread; otherwise the callback is kept in the future.
AddDoneCallback ==
    /\ futures # << >>
    /\ LET f == Len(futures)
       IN /\ ~futures[f].added
          /\ futures' = [futures EXCEPT
                ![f] = Future(@.state, TRUE, IF done(@) THEN GUI ELSE "")]
    /\ last' = "add_done_callback"
    /\ raised' = ""
    /\ UNCHANGED << modelVars, warned, result, ngffVars, imshowVars, histVars >>

\* Worker thread: takes a pending work item off the executor's queue.
WorkerStart(f) ==
    /\ futures[f].state = "pending"
    /\ futures' = [futures EXCEPT ![f].state = "running"]
    /\ last' = "_request_chunk"
    /\ raised' = ""
    /\ UNCHANGED << modelVars, warned, result, ngffVars, imshowVars, histVars >>

\* Worker thread: the work item returns or raises; set_result /
\* set_exception then invoke the callbacks the future holds, in this thread.
WorkerFinish(f, outcome) ==
    /\ futures[f].state = "running"
    /\ futures' = [futures EXCEPT
          ![f] = Future(outcome, @.added, IF @.added THEN WORKER ELSE "")]
    /\ last' = "set_" \o outcome
    /\ raised' = ""
    /\ UNCHANGED << modelVars, warned, result, ngffVars, imshowVars, histVars >>

NextChunk ==
    \/ Submit
    \/ AddDoneCallback
    \/ \E f \in 1..Len(futures) : WorkerStart(f)
    \/ \E f \in 1..Len(futures), outcome \in { "result", "exception" } :
          WorkerFinish(f, outcome)

SpecChunk == InitChunk /\ [][NextChunk]_vars

----------------------------------------------------------------------------
(* ndv/v2/_ngff.py: the two metadata lookups and NGFFTensorStore.          *)
(*                                                                SpecNGFF *)

MaxOpens == 4          \* calls of ts.open that return a store

\* What urlopen + json.load give for a metadata document: an HTTPError, a
\* URLError that is no HTTPError (no connection), or the parsed document,
\* of which the lookups read the "multiscales" list and "zarr_format".
Response(t, has_multiscales, n_multiscales, zarr_format) ==
    [t |-> t, has_multiscales |-> has_multiscales,
     n_multiscales |-> n_multiscales, zarr_format |-> zarr_format]
HTTPError == Response("HTTPError", FALSE, 0, 0)
URLError == Response("URLError", FALSE, 0, 0)
ZattrsResponses ==
    { HTTPError, URLError, Response("json", FALSE, 0, 0) }
    \cup { Response("json", TRUE, n, 0) : n \in 0..2 }
\* zarr_format 0 stands for a .zgroup document without the key.
ZgroupResponses ==
    { HTTPError, URLError }
    \cup { Response("json", FALSE, 0, fmt) : fmt \in { 0, 2, 3, 4 } }

\* Returned values: None, the multiscales list (its length), the .zgroup dict.
Multiscales(n) == [t |-> "multiscales", n |-> n, s |-> ""]
Zgroup(fmt) == [t |-> "zgroup", n |-> fmt, s |-> ""]

\* get_multiscales without the suppress(HTTPError) block.
get_multiscales_unsuppressed(resp) ==
    IF resp.t # "json" THEN [raised |-> resp.t, value |-> None]
    ELSE [raised |-> "",
          value |-> IF resp.has_multiscales
                    THEN Multiscales(resp.n_multiscales) ELSE None]

\* get_multiscales(base_url): what it raises ("" if nothing) and returns.
get_multiscales(resp) ==
    CASE resp.t = "HTTPError" -> [raised |-> "", value |-> None]
      [] resp.t = "URLError" -> [raised |-> "URLError", value |-> None]
      [] OTHER -> [raised |-> "",
                   value |-> IF resp.has_multiscales
                             THEN Multiscales(resp.n_multiscales) ELSE None]

\* get_zgroup(base_url)
get_zgroup(resp) ==
    CASE resp.t = "HTTPError" -> [raised |-> "", value |-> None]
      [] resp.t = "URLError" -> [raised |-> "URLError", value |-> None]
      [] OTHER -> [raised |-> "", value |-> Zgroup(resp.zarr_format)]

\* The dataset paths of the first multiscales entry, and the keys looked up.
Paths == { "0", "1" }
LookupKeys == Paths \cup { "labels" }

InitNGFF ==
    /\ ModelDefault
    /\ NoNGFF
    /\ raised = ""
    /\ last = "import"
    /\ result = NoResult
    /\ NoChunker /\ NoImshow /\ NoHist

\* get_multiscales(base_url) / get_zgroup(base_url), called on their own
GetMultiscales(resp) ==
    LET r == get_multiscales(resp)
    IN /\ last' = "get_multiscales"
       /\ raised' = r.raised
       /\ result' = [kind |-> "value", resp |-> resp, value |-> r.value]
       /\ UNCHANGED << modelVars, warned, chunkVars, ngffVars, imshowVars, histVars >>

GetZgroup(resp) ==
    LET r == get_zgroup(resp)
    IN /\ last' = "get_zgroup"
       /\ raised' = r.raised
       /\ result' = [kind |-> "value", resp |-> resp, value |-> r.value]
       /\ UNCHANGED << modelVars, warned, chunkVars, ngffVars, imshowVars, histVars >>

\* The exception NGFFTensorStore.__init__ ends with, "" when it returns.
NGFFTensorStore_raises(zattrs, zgroup) ==
    LET ms == get_multiscales(zattrs)
        group == get_zgroup(zgroup)
    IN IF ms.raised # "" THEN ms.raised
       ELSE IF ms.value = None \/ ms.value.n = 0 THEN "ValueError"
       ELSE IF group.raised # "" THEN group.raised
       ELSE IF group.value # None /\ group.value.n \notin { 0, 2, 3 }
       THEN "ValueError"
       ELSE ""

\* self._driver = "zarr3" if fmt == 3 else "zarr", with
\* fmt = group.get("zarr_format", 2); not assigned when .zgroup was not found.
driver(group) ==
    IF group = None THEN "unset"
    ELSE IF group.n = 3 THEN "zarr3" ELSE "zarr"

\* store = NGFFTensorStore(base_url)
NGFFTensorStore(zattrs, zgroup) ==
    LET err == NGFFTensorStore_raises(zattrs, zgroup)
    IN /\ last' = "NGFFTensorStore"
       /\ raised' = err
       /\ result' = NoResult
       /\ IF err = ""
          THEN /\ _stores' = << >>
               /\ _driver' = driver(get_zgroup(zgroup).value)
               /\ opened' = << >>
               /\ warned' = (get_multiscales(zattrs).value.n > 1)
          ELSE UNCHANGED << ngffVars, warned >>
       /\ UNCHANGED << modelVars, chunkVars, imshowVars, histVars >>

\* __getitem__ opening a store whether or not it holds one for the key.
needs_open_always(stores, key) == TRUE

\* `if key not in self._stores:`
needs_open(stores, key) == ~HasKey(stores, key)

\* store[key]: NGFFTensorStore.__getitem__.  _spec(key) reads self._driver;
\* ts.open(...).result() returns a new store (numbered in the order of
\* opening) or raises.
GetItem(key, open_ok) ==
    /\ _driver # ""
    /\ last' = "__getitem__"
    /\ IF needs_open(_stores, key)
       THEN IF _driver = "unset"
            THEN /\ raised' = "AttributeError"
                 /\ result' = NoResult
                 /\ UNCHANGED << _stores, opened >>
            ELSE IF ~open_ok
            THEN /\ raised' = "ValueError"
                 /\ result' = NoResult
                 /\ UNCHANGED << _stores, opened >>
            ELSE /\ Len(opened) < MaxOpens
                 /\ opened' = Append(opened, key)
                 /\ _stores' = DictSet(_stores, key, Len(opened) + 1)
                 /\ raised' = ""
                 /\ result' = [kind |-> "store", key |-> key, cached |-> FALSE,
                               value |-> Len(opened) + 1]
       ELSE /\ raised' = ""
            /\ result' = [kind |-> "store", key |-> key, cached |-> TRUE,
                          value |-> Get(_stores, key)]
            /\ UNCHANGED << _stores, opened >>
    /\ UNCHANGED << modelVars, warned, chunkVars, _driver, imshowVars, histVars >>

NextNGFF ==
    \/ \E resp \in ZattrsResponses : GetMultiscales(resp)
    \/ \E resp \in ZgroupResponses : GetZgroup(resp)
    \/ \E zattrs \in ZattrsResponses, zgroup \in ZgroupResponses :
          NGFFTensorStore(zattrs, zgroup)
    \/ \E key \in LookupKeys, open_ok \in BOOLEAN : GetItem(key, open_ok)

SpecNGFF == InitNGFF /\ [][NextNGFF]_vars

----------------------------------------------------------------------------
(* ndv/util.py: imshow(data, display_model).  pc names the statement the   *)
(* call is at: "ArrayViewer", "show", "run_app", "return", then "done".    *)
(*                                                              SpecImshow *)

\* The statement order with show() moved behind run_app().
after_show_last(stmt) ==
    CASE stmt = "ArrayViewer" -> "run_app"
      [] stmt = "run_app" -> "show"
      [] stmt = "show" -> "return"
      [] OTHER -> "done"

\* The statement that follows stmt in the body of imshow.
after(stmt) ==
    CASE stmt = "ArrayViewer" -> "show"
      [] stmt = "show" -> "run_app"
      [] stmt = "run_app" -> "return"
      [] OTHER -> "done"

\* imshow has been called with a display model; nothing has run yet.
InitImshow ==
    \E va \in VisibleAxesInputs, ca \in ChannelAxisInputs, mode \in ChannelMode :
        LET v == _validate_model(va, ca, mode, NoData)
        IN /\ visible_axes = va
           /\ current_index = << >>
           /\ channel_mode = mode
           /\ channel_axis = v.channel_axis
           /\ luts = _default_luts
           /\ data = NoData
           /\ warned = v.warned
           /\ raised = ""
           /\ last = "imshow"
           /\ result = NoResult
           /\ pc = "ArrayViewer"
           /\ viewers = << >>
           /\ app = "not started"
           /\ NoChunker /\ NoNGFF /\ NoHist

\* viewer = ArrayViewer(data, display_model, **kwargs): the data is attached
\* to the display model.
Construct(dw) ==
    LET v == _validate_model(visible_axes, channel_axis, channel_mode, dw)
    IN /\ pc = "ArrayViewer"
       /\ viewers' = Append(viewers, [shown |-> FALSE])
       /\ data' = dw
       /\ channel_axis' = v.channel_axis
       /\ warned' = v.warned
       /\ pc' = after("ArrayViewer")
       /\ last' = "ArrayViewer"
       /\ UNCHANGED << visible_axes, current_index, channel_mode, luts,
                       raised, result, app, chunkVars, ngffVars, histVars >>

\* viewer.show()
Show ==
    /\ pc = "show"
    /\ viewers' = [viewers EXCEPT ![Len(viewers)].shown = TRUE]
    /\ pc' = after("show")
    /\ last' = "show"
    /\ UNCHANGED << modelVars, warned, raised, result, app, chunkVars,
                    ngffVars, histVars >>

\* run_app() is entered: the event loop starts.
RunApp ==
    /\ pc = "run_app"
    /\ app = "not started"
    /\ app' = "running"
    /\ last' = "run_app"
    /\ UNCHANGED << modelVars, warned, raised, result, pc, viewers,
                    chunkVars, ngffVars, histVars >>

\* The user closes the window: the event loop ends.
CloseWindow ==
    /\ app = "running"
    /\ \E w \in 1..Len(viewers) : viewers[w].shown
    /\ app' = "ended"
    /\ last' = "close"
    /\ UNCHANGED << modelVars, warned, raised, result, pc, viewers,
                    chunkVars, ngffVars, histVars >>

\* run_app() returns once the event loop has ended.
RunAppReturns ==
    /\ pc = "run_app"
    /\ app = "ended"
    /\ pc' = after("run_app")
    /\ last' = "run_app returned"
    /\ UNCHANGED << modelVars, warned, raised, result, viewers, app,
                    chunkVars, ngffVars, histVars >>

\* return viewer
Return ==
    /\ pc = "return"
    /\ result' = [kind |-> "viewer", viewer |-> Len(viewers)]
    /\ pc' = after("return")
    /\ last' = "return"
    /\ UNCHANGED << modelVars, warned, raised, viewers, app, chunkVars,
                    ngffVars, histVars >>

NextImshow ==
    \/ \E dw \in Datasets : Construct(dw)
    \/ Show
    \/ RunApp
    \/ CloseWindow
    \/ RunAppReturns
    \/ Return

SpecImshow == InitImshow /\ [][NextImshow]_vars

----------------------------------------------------------------------------
(* ndv/v2/view.py: ArrayViewer._view_index, up to the list of requests it  *)
(* has built when it turns to the chunker.  _norm_index converts the keys  *)
(* as NormedAxes does in the models revision, and raises on the same keys. *)
(*                                                                SpecView *)

\* The index a slider or a caller asks for: partial, or empty.
ViewIndexInputs ==
    { << >> } \cup { << << k, v >> >> : k \in IndexKeys, v \in IndexValues }

\* for ax in range(len(self.data.shape)):
\*     if ax not in requested_index and ax != _channel_axis:
\*         requested_index[ax] = slice(None)
RECURSIVE FillImplicit(_, _, _, _)
FillImplicit(requested, ax, n, c_ax) ==
    IF ax >= n THEN requested
    ELSE FillImplicit(
            IF ~HasKey(requested, ax) /\ I(ax) # c_ax
            THEN DictSet(requested, ax, SliceNone) ELSE requested,
            ax + 1, n, c_ax)

\* A channel filter that skips no channel.
lut_hides_never(l, ch_idx) == FALSE

\* lut_model = self.model.luts.get(ch_idx)
\* if lut_model and not lut_model.visible: continue
lut_hides(l, ch_idx) == I(ch_idx) \in DOMAIN l /\ ~l[I(ch_idx)].visible

\* The requests _view_index has built for index (lines 116-167), for data
\* whose keys all resolve.
_view_index(d, index, va, ca, l) ==
    LET _visible_axes == normed_visible_axes(d, va)
        _channel_axis == normed_channel_axis(d, ca)
        requested_index ==
            FillImplicit(
                EnsureSlices(normed_current_index(d, index), _visible_axes),
                0, ndim(d), _channel_axis)
        reducers == { ax \in DictKeys(requested_index) :
                        /\ IsSlice(Get(requested_index, ax))
                        /\ ax \notin Elems(_visible_axes) }
        Request(texture_id, idx) ==
            [texture_id |-> texture_id, idx |-> idx, reducers |-> reducers]
    IN IF _channel_axis # None
       THEN LET num_channels == d.shape[_channel_axis.n + 1]
                all == [i \in 1..num_channels |->
                          Request(I(i - 1),
                                  DictSet(requested_index, _channel_axis.n,
                                          Pos(i - 1)))]
            IN SelectSeq(all, LAMBDA r : ~lut_hides(l, r.texture_id.n))
       ELSE << Request(None, requested_index) >>

\* viewer._view_index(index)
ViewIndex(index) ==
    LET err == NormedError(data, visible_axes, index, channel_axis)
    IN /\ data # NoData
       /\ last' = "_view_index"
       /\ raised' = err
       /\ warned' = FALSE
       /\ result' = IF err # "" THEN NoResult
                    ELSE [kind |-> "view", index |-> index,
                          requests |-> _view_index(data, index, visible_axes,
                                                   channel_axis, luts)]
       /\ UNCHANGED << modelVars, chunkVars, ngffVars, imshowVars, histVars >>

\* viewer.redraw(): self._view_index(self.model.current_index)
redraw == ViewIndex(current_index)

NextView ==
    \/ \E d \in Datasets : set_data(d)
    \/ \E ca \in ChannelAxisInputs : v2_SetChannelAxis(ca)
    \/ \E index \in ViewIndexInputs : ViewIndex(index)
    \/ redraw

SpecView == InitV2 /\ [][NextView]_vars

----------------------------------------------------------------------------
(* ndv/controller/_histogram_controller.py: HistogramController and the    *)
(* LUTModel objects it is attached to.  A signal of a LUT holds a number   *)
(* of connections of the controller's slot for it: connect adds one,       *)
(* disconnect removes one if there is any.                        SpecHist *)

\* The LUTModel objects of the program, by name.
LutObjects == { "a", "b" }

\* connections of the lut setter: signal name -> slot.
Signals == { "clims", "cmap", "gamma", "visible" }

\* Values of the fields; visible is a Boolean.  clims "None" is the falsy
\* value of `clims := self._lut.clims`.
FieldValues(signal_name) ==
    CASE signal_name = "clims" -> { "None", "(0, 1)" }
      [] signal_name = "cmap" -> { "gray", "green" }
      [] signal_name = "gamma" -> { "1.0", "2.0" }
      [] OTHER -> BOOLEAN

LutFields ==
    [clims : FieldValues("clims"), cmap : FieldValues("cmap"),
     gamma : FieldValues("gamma"), visible : FieldValues("visible")]

Unset == [clims |-> "unset", cmap |-> "unset", gamma |-> "unset",
          visible |-> FALSE]

\* The slot of signal_name run once: _on_model_<signal_name>_update, on a
\* canvas in state hist, with lut attached (fields is lut's, if any).
slot(signal_name, hist, lut, fields) ==
    CASE signal_name = "visible" ->
            [hist EXCEPT !.visible = IF lut = NoLut THEN FALSE
                                     ELSE fields.visible]
      [] signal_name = "clims" ->
            IF lut # NoLut /\ fields.clims # "None"
            THEN [hist EXCEPT !.clims = fields.clims] ELSE hist
      [] signal_name = "cmap" ->
            IF lut # NoLut THEN [hist EXCEPT !.cmap = fields.cmap] ELSE hist
      [] OTHER ->
            IF lut # NoLut THEN [hist EXCEPT !.gamma = fields.gamma] ELSE hist

\* All four slots run once, in the order of `connections`.
slots(hist, lut, fields) ==
    slot("visible",
         slot("gamma",
              slot("cmap", slot("clims", hist, lut, fields), lut, fields),
              lut, fields),
         lut, fields)

\* A setter that detaches the old LUT only when it is assigned again.
detaches_same_only(old, new) == old # NoLut /\ old = new

\* `if old is not None:` -- the old LUT is detached.
detaches(old, new) == old # NoLut

\* The connections after `self.lut = new`, old being attached before: for
\* every signal, disconnect(slot) on old, then connect(slot) on new.
lut_setter(conn, old, new) ==
    LET detached ==
            [l \in LutObjects |-> [s \in Signals |->
                IF l = old /\ detaches(old, new) /\ conn[l][s] > 0
                THEN conn[l][s] - 1 ELSE conn[l][s]]]
    IN [l \in LutObjects |-> [s \in Signals |->
            IF l = new THEN detached[l][s] + 1 ELSE detached[l][s]]]

NotConnected == [l \in LutObjects |-> [s \in Signals |-> 0]]
NoCalls == [s \in Signals |-> 0]

\* HistogramController(lut): self._lut = None; self.lut = lut
InitHist ==
    \E models \in [LutObjects -> LutFields], lut \in LutObjects :
        /\ ModelDefault
        /\ lut_models = models
        /\ _lut = lut
        /\ connected = lut_setter(NotConnected, NoLut, lut)
        /\ _hist = slots(Unset, lut, models[lut])
        /\ calls = [s \in Signals |-> 1]
        /\ raised = ""
        /\ last = "HistogramController"
        /\ result = NoResult
        /\ NoChunker /\ NoNGFF /\ NoImshow

\* controller.lut = lut (a LUTModel or None)
SetLut(lut) ==
    /\ _lut' = lut
    /\ connected' = lut_setter(connected, _lut, lut)
    /\ _hist' = slots(_hist, lut,
                      IF lut = NoLut THEN Unset ELSE lut_models[lut])
    /\ calls' = [s \in Signals |-> 1]
    /\ last' = "lut"
    /\ result' = [kind |-> "assigned", old |-> _lut]
    /\ UNCHANGED << modelVars, warned, raised, lut_models, chunkVars,
                    ngffVars, imshowVars >>

\* lut.<signal_name> = value on a LUTModel, by any holder of it: the field
\* changes, the signal is emitted and every connection runs its slot, which
\* reads the LUT attached to the controller then.
SetLutField(lut, signal_name, value) ==
    LET models == [lut_models EXCEPT ![lut][signal_name] = value]
        n == connected[lut][signal_name]
    IN /\ lut_models[lut][signal_name] # value
       /\ lut_models' = models
       /\ calls' = [s \in Signals |-> IF s = signal_name THEN n ELSE 0]
       /\ _hist' = IF n = 0 THEN _hist
                   ELSE slot(signal_name, _hist, _lut,
                             IF _lut = NoLut THEN Unset ELSE models[_lut])
       /\ last' = "setattr"
       /\ result' = [kind |-> "emitted", lut |-> lut]
       /\ UNCHANGED << modelVars, warned, raised, _lut, connected, chunkVars,
                       ngffVars, imshowVars >>

\* _on_view_clims_update / _on_view_gamma_update: the user changes clims or
\* gamma on the canvas, which is assigned to the attached LUT.
ViewUpdate(signal_name, value) ==
    /\ _lut # NoLut
    /\ SetLutField(_lut, signal_name, value)

NextHist ==
    \/ \E lut \in LutObjects \cup { NoLut } : SetLut(lut)
    \/ \E lut \in LutObjects, s \in Signals :
          \E value \in FieldValues(s) : SetLutField(lut, s, value)
    \/ \E s \in { "clims", "gamma" } :
          \E value \in FieldValues(s) : ViewUpdate(s, value)

SpecHist == InitHist /\ [][NextHist]_vars

----------------------------------------------------------------------------
(* Claims about the models revision (SpecADM).                             *)

\* C1: in every reachable state channel_axis is None or is not an element
\* of visible_axes.
C1_ChannelAxisNotVisible ==
    channel_axis = None \/ channel_axis \notin Elems(visible_axes)

C10_RequestsAreCanonical ==
    (last = "current_slice_requests" /\ result.kind = "requests"
        /\ data # NoData)
    => \A r \in 1..Len(result.requests) :
        LET req == result.requests[r]
        IN /\ DictKeys(req.index) \subseteq 0..(ndim(data) - 1)
           /\ Len(req.visible_axes) = Len(visible_axes)
           /\ \A i \in 1..Len(visible_axes) :
                LET ax == axis_index(data, visible_axes[i])
                IN /\ req.visible_axes[i] = ax
                   /\ HasKey(req.index, ax)
                   /\ IsSlice(Get(req.index, ax))

\* A request was returned for a model whose current_index holds an integer
\* position on an axis that is visible and one on an axis that is not.
C10_Witness ==
    /\ last = "current_slice_requests"
    /\ result.kind = "requests"
    /\ data # NoData
    /\ Len(result.requests) = 1
    /\ \E i, j \in 1..Len(current_index) :
         /\ IsInt(current_index[i][2])
         /\ axis_index(data, current_index[i][1])
              \in Elems(result.requests[1].visible_axes)
         /\ axis_index(data, current_index[j][1])
              \notin Elems(result.requests[1].visible_axes)

\* C11: in GRAYSCALE or COLOR mode, whatever channel_axis is, every
\* DataRequest of current_slice_requests has channel_axis None, and
\* request_sliced_data returns exactly one future, with channel_key None.
C11_SingleChannelModeIgnoresChannelAxis ==
    ( /\ last \in { "current_slice_requests", "request_sliced_data" }
      /\ result.kind \in { "requests", "futures" }
      /\ data # NoData
      /\ channel_mode \in { GRAYSCALE, COLOR } )
    => /\ \A r \in 1..Len(result.requests) :
            result.requests[r].channel_axis = None
       /\ result.kind = "futures"
            => /\ Len(result.futures) = 1
               /\ result.futures[1].channel_key = None

\* C12: in COMPOSITE or RGBA mode with a channel axis set and data attached,
\* the request's index at the channel axis is the slice current_index gives
\* for that axis, or slice(None) when it gives an integer or nothing (an
\* axis the index lacks is read whole, as under slice(None)).
C12_ChannelAxisRequestedWhole ==
    ( /\ last = "current_slice_requests"
      /\ result.kind = "requests"
      /\ data # NoData
      /\ is_multichannel(channel_mode)
      /\ channel_axis # None )
    => \A r \in 1..Len(result.requests) :
        LET c == axis_index(data, channel_axis)
            given == normed_current_index(data, current_index)
            index == result.requests[r].index
            whole == IF HasKey(given, c) /\ IsSlice(Get(given, c))
                     THEN Get(given, c)
                     ELSE SliceNone
        IN /\ (IF HasKey(index, c) THEN Get(index, c) ELSE SliceNone) = whole
           /\ isel(data, index)[c + 1] = Len(Selected(whole, data.shape[c + 1]))

\* C20: request_sliced_data, when it returns, returns only completed
\* futures: none when no data is attached; one with channel_key None for a
\* request whose channel_axis is None; otherwise one per position along the
\* channel axis of the sliced data, ascending, channel_key the position.
C20_OneFuturePerChannelPosition ==
    (last = "request_sliced_data" /\ raised = "")
    => /\ result.kind = "futures"
       /\ \A f \in 1..Len(result.futures) : result.futures[f].done
       /\ IF data = NoData
          THEN result.futures = << >>
          ELSE /\ Len(result.requests) = 1
               /\ LET req == result.requests[1]
                      c == req.channel_axis
                  IN IF c = None
                     THEN /\ Len(result.futures) = 1
                          /\ result.futures[1].channel_key = None
                     ELSE /\ Len(result.futures)
                               = isel(data, req.index)[c.n + 1]
                          /\ \A f \in 1..Len(result.futures) :
                               result.futures[f].channel_key = I(f - 1)

\* Futures were returned for one channel out of three, the channel axis
\* being sliced by current_index.
C20_Witness ==
    /\ last = "request_sliced_data"
    /\ result.kind = "futures"
    /\ data # NoData
    /\ is_multichannel(channel_mode)
    /\ result.requests[1].channel_axis = I(0)
    /\ data.shape[1] = 3
    /\ HasKey(result.requests[1].index, 0)
    /\ Get(result.requests[1].index, 0) = Slice(0, 1)
    /\ Len(result.futures) = 1
    /\ result.futures[1].channel_key = I(0)

----------------------------------------------------------------------------
(* Claims about the v2 revision and its viewer (SpecV2).                   *)

Reconciled == last = "reconcile" /\ result.kind = "reconciled"

\* C3: the fallback LUT entry (key None) is present in luts in every
\* reachable state.
C3_FallbackLutPresent == None \in DOMAIN luts

\* C4: visible_axes has 2 or 3 axes in every reachable state, so has the
\* visible_axes every accepted reconciliation returns, and n_visible_axes is
\* the length of visible_axes.
C4_TwoOrThreeVisibleAxes ==
    /\ Len(visible_axes) \in { 2, 3 }
    /\ n_visible_axes(visible_axes) = Len(visible_axes)
    /\ Reconciled => Len(result.visible_axes) \in { 2, 3 }

\* Reconciliation returned fewer visible axes than the model has.
C4_Witness ==
    /\ Reconciled
    /\ Len(visible_axes) = 3
    /\ Len(result.visible_axes) = 2

\* C5: against a dataset of ndim >= 2 dimensions, reconciliation returns the
\* last ndim visible axes, in order, of a model with more than ndim of them,
\* and the visible axes unchanged otherwise.
C5_KeepsTrailingAxes ==
    Reconciled =>
        LET n == ndim(result.arg)
            m == Len(visible_axes)
        IN /\ n >= 2
           /\ IF m > n
              THEN /\ Len(result.visible_axes) = n
                   /\ \A i \in 1..n :
                        result.visible_axes[i] = visible_axes[m - n + i]
              ELSE result.visible_axes = visible_axes

\* Three distinct visible axes were cut to the trailing two.
C5_Witness ==
    /\ Reconciled
    /\ Len(visible_axes) = 3
    /\ visible_axes[1] # visible_axes[3]
    /\ ndim(result.arg) = 2
    /\ result.visible_axes = << visible_axes[2], visible_axes[3] >>

\* C6: for a model that has its fallback entry and a dataset whose visible
\* axes reconcile, reconciliation completes and returns the fallback entry
\* and exactly the per-channel entries whose key is present in the dataset.
C6_LutsPruned ==
    (last = "reconcile" /\ raised # "ValueError" /\ None \in DOMAIN luts)
    => /\ result.kind = "reconciled"
       /\ DOMAIN result.luts =
            { k \in DOMAIN luts : k = None \/ Resolves(result.arg, k) }
       /\ \A k \in DOMAIN result.luts : result.luts[k] = luts[k]

\* C7: the model parsed back from its JSON document equals the model.
C7_RoundTripEqual ==
    last = "round_trip"
    => /\ result.visible_axes = visible_axes
       /\ DictEq(result.current_index, current_index)
       /\ result.channel_axis = channel_axis
       /\ result.luts = luts

\* The index of the last item of ci whose key resolves to axis a.
LastFor(ci, d, a) ==
    CHOOSE i \in 1..Len(ci) :
        /\ Resolves(d, ci[i][1]) /\ axis_index(d, ci[i][1]) = a
        /\ \A j \in (i + 1)..Len(ci) :
             ~(Resolves(d, ci[j][1]) /\ axis_index(d, ci[j][1]) = a)

ResolvedAxes(ci, d) ==
    { axis_index(d, ci[i][1]) : i \in { j \in 1..Len(ci) : Resolves(d, ci[j][1]) } }

ChannelAxisReconciled ==
    result.channel_axis =
        IF channel_axis # None /\ Resolves(result.arg, channel_axis)
        THEN I(axis_index(result.arg, channel_axis))
        ELSE None

\* C8 as stated: the returned current_index holds every entry of the model
\* whose key resolves, under the resolved axis index, and nothing else; the
\* returned channel_axis is the resolved index, or None.
C8_EveryResolvedEntryKept ==
    Reconciled =>
        /\ \A i \in 1..Len(current_index) :
             Resolves(result.arg, current_index[i][1]) =>
                LET k == I(axis_index(result.arg, current_index[i][1]))
                IN /\ HasKey(result.current_index, k)
                   /\ Get(result.current_index, k) = current_index[i][2]
        /\ DictKeys(result.current_index) =
             { I(a) : a \in ResolvedAxes(current_index, result.arg) }
        /\ ChannelAxisReconciled

\* C8 amended: the returned current_index has one entry for each axis index
\* that some key of the model resolves to, holding the value of the last such
\* key in the model's iteration order (an earlier entry resolving to the same
\* axis is overwritten), and nothing else; the returned channel_axis is the
\* resolved index, or None.
C8_LastResolvedEntryKept ==
    Reconciled =>
        /\ DictKeys(result.current_index) =
             { I(a) : a \in ResolvedAxes(current_index, result.arg) }
        /\ \A a \in ResolvedAxes(current_index, result.arg) :
             Get(result.current_index, I(a)) =
                current_index[LastFor(current_index, result.arg, a)][2]
        /\ ChannelAxisReconciled

\* Reconciliation dropped one entry and re-keyed another, and resolved the
\* channel axis to a different key.
C8_Witness ==
    /\ Reconciled
    /\ \E i, j \in 1..Len(current_index) :
         /\ ~Resolves(result.arg, current_index[i][1])
         /\ Resolves(result.arg, current_index[j][1])
         /\ ~HasKey(result.current_index, current_index[j][1])
    /\ Len(result.current_index) = 1
    /\ result.channel_axis \notin { None, channel_axis }

\* C9: attaching a dataset of at least 2 dimensions never raises, whatever
\* axes the configuration names (here: its lut keys all exist, its other
\* keys are any).
C9_AttachNeverRaises ==
    ( /\ last \in { "reconcile", "set_data" }
      /\ ndim(data) >= 2
      /\ \A k \in DOMAIN luts : k = None \/ Resolves(data, k) )
    => raised = ""

----------------------------------------------------------------------------
(* Claims about integer positions (SpecSlice).                             *)

\* Position i is a valid index of an axis of length n.
ValidPosition(i, n) == 0 - n <= i /\ i < n

\* C17: an integer position in current_index that is a valid index of its
\* axis, of either sign, on an axis that is not visible, is requested as a
\* slice that selects exactly that position, so the sliced axis has length
\* 1; so is the slice _to_slice makes of an integer, on an axis of any length
\* the integer is a valid index of.
C17_PositionBecomesOnePositionSlice ==
    /\ (last = "current_slice_requests" /\ result.kind = "requests"
            /\ data # NoData)
       => \A r \in 1..Len(result.requests), i \in 1..Len(current_index) :
            LET req == result.requests[r]
                ax == axis_index(data, current_index[i][1])
                n == data.shape[ax + 1]
                val == current_index[i][2]
            IN (IsInt(val) /\ ValidPosition(val.a, n)
                    /\ ax \notin Elems(req.visible_axes))
               => /\ Selected(Get(req.index, ax), n) = << (val.a + n) % n >>
                  /\ isel(data, req.index)[ax + 1] = 1
    /\ (last = "_to_slice" /\ result.kind = "slice" /\ IsInt(result.arg))
       => \A n \in 1..MaxPos :
            ValidPosition(result.arg.a, n)
            => Selected(result.value, n) = << (result.arg.a + n) % n >>

----------------------------------------------------------------------------
(* Claims about the chunker's threads (SpecChunk).                         *)

----------------------------------------------------------------------------
(* Claims about the NGFF adapter (SpecNGFF).                               *)

\* C14: get_multiscales and get_zgroup return None and raise nothing when
\* the request fails with an HTTPError; get_multiscales also returns None
\* for a .zattrs document without a multiscales entry.
C14_HTTPErrorGivesNone ==
    (last \in { "get_multiscales", "get_zgroup" })
    => /\ result.resp.t = "HTTPError"
            => (raised = "" /\ result.value = None)
       /\ (last = "get_multiscales" /\ result.resp.t = "json"
                /\ ~result.resp.has_multiscales)
            => (raised = "" /\ result.value = None)

\* get_multiscales has just returned None for a request that failed with an
\* HTTPError.
C14_Witness ==
    /\ last = "get_multiscales"
    /\ result.resp = HTTPError
    /\ result.value = None
    /\ raised = ""

\* The number of times key occurs in the log of opened stores.
TimesOpened(key) == Cardinality({ i \in 1..Len(opened) : opened[i] = key })

\* C15: a NGFFTensorStore just constructed has opened no store; a store is
\* opened only for a key that was looked up, at most once per key; the
\* store the object holds for a key, and returns for it, is the one opened
\* then.
C15_OpenedLazilyOncePerKey ==
    /\ (last = "NGFFTensorStore" /\ raised = "")
          => (opened = << >> /\ _stores = << >>)
    /\ \A key \in LookupKeys : TimesOpened(key) <= 1
    /\ DictKeys(_stores) = Elems(opened)
    /\ \A key \in DictKeys(_stores) : opened[Get(_stores, key)] = key
    /\ (last = "__getitem__" /\ raised = "")
          => /\ HasKey(_stores, result.key)
             /\ result.value = Get(_stores, result.key)

\* Two levels were opened, and the last lookup returned the store already
\* held for its key.
C15_Witness ==
    /\ last = "__getitem__"
    /\ raised = ""
    /\ result.cached
    /\ Len(opened) = 2

----------------------------------------------------------------------------
(* Claims about imshow (SpecImshow).                                       *)

\* C16: imshow constructs one viewer; show() has been called on it whenever
\* the event loop has been started; and when imshow has returned, the event
\* loop has ended and the value returned is that viewer.
C16_ShowThenLoopThenReturn ==
    /\ Len(viewers) <= 1
    /\ app # "not started" => (Len(viewers) = 1 /\ viewers[1].shown)
    /\ pc = "done"
          => /\ app = "ended"
             /\ Len(viewers) = 1
             /\ result = [kind |-> "viewer", viewer |-> 1]

\* imshow has returned the viewer after the window was closed.
C16_Witness ==
    /\ pc = "done"
    /\ app = "ended"
    /\ result = [kind |-> "viewer", viewer |-> 1]
    /\ data # NoData

----------------------------------------------------------------------------
(* Claims about the requests of the v2 viewer (SpecView).                  *)

ViewBuilt == last = "_view_index" /\ result.kind = "view"

\* The channel positions whose LUT is absent or visible.
ShownChannels ==
    { ch \in 0..(data.shape[axis_index(data, channel_axis) + 1] - 1) :
        I(ch) \notin DOMAIN luts \/ luts[I(ch)].visible }

\* C18: with a channel axis set, _view_index builds exactly one request per
\* channel position whose LUT is absent or visible, in ascending order, with
\* texture_id the position and the index at the channel axis the position
\* (so none for a channel whose LUT has visible = FALSE); with no channel
\* axis it builds exactly one request, with texture_id None.
C18_OneRequestPerShownChannel ==
    ViewBuilt =>
        LET requests == result.requests
        IN IF channel_axis = None
           THEN Len(requests) = 1 /\ requests[1].texture_id = None
           ELSE /\ { requests[r].texture_id.n : r \in 1..Len(requests) }
                     = ShownChannels
                /\ \A r, q \in 1..Len(requests) :
                     r < q => requests[r].texture_id.n < requests[q].texture_id.n
                /\ \A r \in 1..Len(requests) :
                     /\ requests[r].texture_id.t = "int"
                     /\ Get(requests[r].idx, axis_index(data, channel_axis))
                          = Pos(requests[r].texture_id.n)

\* Requests were built for the channels of a three-channel axis but the
\* first, whose LUT is not visible.
C18_Witness ==
    /\ ViewBuilt
    /\ channel_axis # None
    /\ I(0) \in DOMAIN luts
    /\ ~luts[I(0)].visible
    /\ Len(result.requests) = 2
    /\ result.requests[1].texture_id = I(1)

\* C19: every request _view_index builds has an index entry for every axis
\* of the dataset; every visible axis maps to a slice, the full slice when
\* the index omitted the axis or gave an integer for it; every axis that is
\* neither in the index nor visible nor the channel axis maps to the full
\* slice.
C19_IndexCoversEveryAxis ==
    ViewBuilt =>
        \A r \in 1..Len(result.requests) :
            LET idx == result.requests[r].idx
                given == normed_current_index(data, result.index)
                visible == Elems(normed_visible_axes(data, visible_axes))
                c_ax == normed_channel_axis(data, channel_axis)
            IN /\ DictKeys(idx) = 0..(ndim(data) - 1)
               /\ \A ax \in visible :
                    /\ IsSlice(Get(idx, ax))
                    /\ (~HasKey(given, ax) \/ IsInt(Get(given, ax)))
                          => Get(idx, ax) = SliceNone
               /\ \A ax \in 0..(ndim(data) - 1) :
                    (~HasKey(given, ax) /\ ax \notin visible /\ I(ax) # c_ax)
                    => Get(idx, ax) = SliceNone

----------------------------------------------------------------------------
(* Further claims about reconciliation (SpecV2).                           *)

\* C21: against a dataset of fewer than 2 dimensions reconcile_model_with_data
\* raises ValueError, whatever the model holds, and returns nothing.
C21_FewerThanTwoDimensionsRaises ==
    (last = "reconcile" /\ ndim(data) < 2)
    => /\ raised = "ValueError"
       /\ result.kind = "raised"

\* Reconciliation against a one-dimensional dataset has just raised, for a
\* model whose visible axes and lut keys all exist in that dataset.
C21_Witness ==
    /\ last = "reconcile"
    /\ ndim(data) = 1
    /\ raised = "ValueError"
    /\ \A axis \in Elems(reconcile_visible_axes(visible_axes, data)) :
         Resolves(data, axis)
    /\ \A key \in DOMAIN luts : key = None \/ Resolves(data, key)

----------------------------------------------------------------------------
(* Claims about the histogram controller (SpecHist).                       *)

\* C22: after any sequence of assignments to HistogramController.lut, each
\* of the four slots has exactly one connection to the attached LUT and none
\* to any other LUT; each assignment has run every slot once; and a change
\* of a LUT that is not attached runs no slot.
C22_SlotsFollowAttachedLut ==
    /\ \A l \in LutObjects, s \in Signals :
         connected[l][s] = IF l = _lut THEN 1 ELSE 0
    /\ last = "lut" => \A s \in Signals : calls[s] = 1
    /\ (last = "setattr" /\ result.lut # _lut)
         => \A s \in Signals : calls[s] = 0

\* A LUT has just been assigned in place of another one, from which it
\* differs in every field: the slots are connected to the new one only, and
\* the canvas shows the new one's visibility.
C22_Witness ==
    /\ last = "lut"
    /\ _lut # NoLut
    /\ result.old \notin { NoLut, _lut }
    /\ \A s \in Signals :
         /\ lut_models[result.old][s] # lut_models[_lut][s]
         /\ connected[result.old][s] = 0
         /\ connected[_lut][s] = 1
    /\ _hist.visible = lut_models[_lut].visible

====
